---- MODULE Spec2Model ----
(***************************************************************************)
(* Model of the parser facade of json-table-editor (src/src/parser/mod.rs): *)
(* JSONParser::parse, change_depth, as_array and filter_non_null_column,   *)
(* and of ObjectTable::new / update_value (src/src/object_table.rs).       *)
(*                                                                         *)
(* Strings are sequences of one-character strings, so that starts_with,    *)
(* slicing, concatenation and usize::to_string are computed as the code    *)
(* computes them.  A JSON document is a tree; the raw text of an opaque    *)
(* container is represented by the tree that text denotes.                 *)
(***************************************************************************)
EXTENDS Integers, Sequences, FiniteSets

VARIABLES
    input,      \* the JSON document held by the JSONParser (NoDoc when the caller supplied a Parse Result)
    parsed,     \* [done, opts]: the ParseOptions JSONParser::parse was called with
    res,        \* [live, pr]: the Parse Result the caller currently owns
    cd,         \* [status, opts, before]: the last change_depth call
    aa,         \* [status, given, rows, columns]: the as_array call
    flt,        \* [done, prefix, required, out]: the last filter_non_null_column call
    tbl         \* the ObjectTable, the ArrayResponse of the current frame and the last update_value call

vars == <<input, parsed, res, cd, aa, flt, tbl>>

----------------------------------------------------------------------------
(* Bounds of the model *)

\* largest root array length of a Parse Result handed to as_array
MaxRows == 11
\* length of the repeating pattern of element shapes in such a Parse Result
PatLen == 2
\* deepest container nesting of the documents given to parse
MaxNest == 2
\* largest small max_depth option tried
MaxDepth == 3

\* width of the `as u8` cast of max_depth
U8Mod == 256

----------------------------------------------------------------------------
(* Strings *)

Digits == <<"0", "1", "2", "3", "4", "5", "6", "7", "8", "9">>

RECURSIVE to_string(_)
\* usize::to_string: the decimal digits of n, most significant first
to_string(n) ==
    IF n < 10 THEN <<Digits[n + 1]>>
    ELSE to_string(n \div 10) \o <<Digits[(n % 10) + 1]>>

\* str::starts_with
StartsWith(s, p) == Len(p) <= Len(s) /\ SubSeq(s, 1, Len(p)) = p

\* concat_string!(a, b, c)
Concat3(a, b, c) == a \o b \o c

----------------------------------------------------------------------------
(* JSON documents and flat entries *)

NoDoc == [t |-> "None", text |-> <<>>, kids |-> <<>>]
NullDoc == [t |-> "Null", text |-> <<>>, kids |-> <<>>]
Num(s) == [t |-> "Number", text |-> s, kids |-> <<>>]
KV(k, v) == [key |-> k, val |-> v]
Obj(kvs) == [t |-> "Object", text |-> <<>>, kids |-> kvs]
Arr(els) == [t |-> "Array", text |-> <<>>,
             kids |-> [i \in 1..Len(els) |-> KV(to_string(i - 1), els[i])]]

IsContainer(d) == d.t \in {"Object", "Array"}

\* Option<String>: None, Some(scalar text), Some(raw text of a container)
None == [some |-> FALSE, text |-> <<>>, raw |-> NoDoc]
SomeText(s) == [some |-> TRUE, text |-> s, raw |-> NoDoc]
SomeRaw(d) == [some |-> TRUE, text |-> <<>>, raw |-> d]

\* Option<String> for started_parsing_at / start_parse_at
NoPath == [some |-> FALSE, path |-> <<>>]
SomePath(p) == [some |-> TRUE, path |-> p]

\* (PointerKey, Option<String>)
Entry(p, vt, d, pos, idx, val) ==
    [pointer |-> p, value_type |-> vt, depth |-> d, position |-> pos,
     index |-> idx, value |-> val]

ParseOptions(pa, md) == [parse_array |-> pa, max_depth |-> md, start_parse_at |-> NoPath]

EmptyPR ==
    [json |-> <<>>, max_json_depth |-> 0, parsing_max_depth |-> 0,
     root_value_type |-> "None", started_parsing_at |-> NoPath, root_array_len |-> 0]

----------------------------------------------------------------------------
(* Flattening Parser (parser/parser.rs is not part of the sources at hand; *)
(* modelled from the specification, sections 3 and 4.2)                    *)

RECURSIVE DocDepth(_)
\* true nesting depth of a document (max_json_depth)
DocDepth(d) ==
    IF ~IsContainer(d) THEN 0
    ELSE LET ds == {DocDepth(d.kids[i].val) : i \in 1..Len(d.kids)}
         IN 1 + (IF ds = {} THEN 0 ELSE CHOOSE m \in ds : \A x \in ds : x <= m)

RECURSIVE FlattenValue(_, _, _, _)
RECURSIVE FlattenKids(_, _, _, _)
\* the entries emitted for value d met at path route and nesting level depth
FlattenValue(d, route, depth, opts) ==
    CASE d.t = "Null" -> <<Entry(route, "Null", depth, 0, 0, None)>>
      [] d.t = "Object" ->
            IF depth < opts.max_depth
            THEN FlattenKids(d.kids, route, depth + 1, opts)
            ELSE <<Entry(route, "Object", depth, 0, 0, SomeRaw(d))>>
      [] d.t = "Array" ->
            IF opts.parse_array /\ depth < opts.max_depth
            THEN FlattenKids(d.kids, route, depth + 1, opts)
            ELSE <<Entry(route, "Array", depth, 0, 0, SomeRaw(d))>>
      [] OTHER -> <<Entry(route, d.t, depth, 0, 0, SomeText(d.text))>>

\* the members of a container, each under route "/" key
FlattenKids(kids, route, depth, opts) ==
    IF kids = <<>> THEN <<>>
    ELSE FlattenValue(Head(kids).val, Concat3(route, <<"/">>, Head(kids).key), depth, opts)
         \o FlattenKids(Tail(kids), route, depth, opts)

\* position: sequential index in parse order
Renumber(json) == [i \in 1..Len(json) |-> [json[i] EXCEPT !.position = i - 1]]

\* Parser::parse(&options, depth, prefix) on the text denoting document d.
\* The root object is always expanded, its members at nesting level `depth`;
\* a root array is expanded when parse_array is set and kept opaque otherwise.
ParserParse(d, opts, depth, prefix) ==
    LET route == IF prefix.some THEN prefix.path ELSE <<>>
        json == IF d.t = "Array" /\ ~opts.parse_array
                THEN <<Entry(route, "Array", depth, 0, 0, SomeRaw(d))>>
                ELSE FlattenKids(d.kids, route, depth, opts)
    IN [json |-> Renumber(json),
        max_json_depth |-> DocDepth(d),
        parsing_max_depth |-> opts.max_depth,
        root_value_type |-> d.t,
        started_parsing_at |-> opts.start_parse_at,
        root_array_len |-> IF d.t = "Array" THEN Len(d.kids) ELSE 0]

----------------------------------------------------------------------------
(* JSONParser::parse and JSONParser::change_depth *)

\* JSONParser::parse: self.parser.parse(&options, 1, None)
Parse(d, opts) == ParserParse(d, opts, 1, NoPath)

\* parse_options.max_depth as u8
AsU8(n) == n % U8Mod

\* the first branch of the loop body: the entry is pushed through unchanged
PassesThrough(k, opts) == k.value_type # "Object" \/ k.depth > AsU8(opts.max_depth)

\* what one entry (k, v) of previous.json contributes to new_flat_json_structure
ExpandEntry(k, opts) ==
    IF PassesThrough(k, opts) THEN <<k>>
    ELSE IF k.value.some
         THEN ParserParse(k.value.raw, opts, k.depth + 1, SomePath(k.pointer)).json
         ELSE <<>>

RECURSIVE ExpandAll(_, _)
\* for (k, v) in previous_parse_result.json { ... }
ExpandAll(json, opts) ==
    IF json = <<>> THEN <<>>
    ELSE ExpandEntry(Head(json), opts) \o ExpandAll(Tail(json), opts)

\* JSONParser::change_depth(previous, options): [status, pr]
change_depth(previous, opts) ==
    IF previous.parsing_max_depth < opts.max_depth
    THEN [status |-> "Ok",
          pr |-> [json |-> ExpandAll(previous.json, opts),
                  max_json_depth |-> previous.max_json_depth,
                  parsing_max_depth |-> opts.max_depth,
                  root_value_type |-> previous.root_value_type,
                  started_parsing_at |-> previous.started_parsing_at,
                  root_array_len |-> previous.root_array_len]]
    ELSE IF previous.parsing_max_depth > opts.max_depth
    THEN [status |-> "Panic", pr |-> EmptyPR]     \* todo!("")
    ELSE [status |-> "Ok", pr |-> previous]

----------------------------------------------------------------------------
(* JSONParser::as_array *)

\* the row sampled to pre-size the row vectors: `if i == 10`
SampleRow == 10

\* crate::flatten::Column { name, depth }
Column(name, depth) == [name |-> name, depth |-> depth]

\* Column's equality: (name, depth) (specification, section 3)
ColumnEq(a, b) == a.name = b.name /\ a.depth = b.depth

\* unique_keys.contains(&column)
Contains(keys, column) == \E n \in 1..Len(keys) : ColumnEq(keys[n], column)

\* RecordColumn without the membership test: every column is pushed
RecordColumn_Unchecked(keys, column) == Append(keys, column)

\* if !unique_keys.contains(&column) { unique_keys.push(column); }
RecordColumn(keys, column) == IF Contains(keys, column) THEN keys ELSE Append(keys, column)

\* RootIsArray with the root type test left out
RootIsArray_Any(pr) == TRUE

\* !matches!(root_value_type, ValueType::Array) is the error return
RootIsArray(pr) == pr.root_value_type = "Array"

\* concat_string!(started_parsing_at, "/", _i), or concat_string!("/", _i)
RowPrefix(started, i) ==
    Concat3(IF started.some THEN started.path ELSE <<>>, <<"/">>, to_string(i))

\* the loop guard: j > 0 && !json.is_empty(); jw marks j = usize::MAX after a wrapped 0 - 1
CanScan(st) == (st.jw \/ st.j > 0) /\ st.json # <<>>

\* &k.pointer[prefix_len..k.pointer.len()] panics when prefix_len > len
SliceFails(pointer, prefix_len) == prefix_len > Len(pointer)

\* &k.pointer[prefix_len..k.pointer.len()]
KeyOf(pointer, prefix_len) == SubSeq(pointer, prefix_len + 1, Len(pointer))

\* PointerKey::from_pointer_and_index(concat_string!(prefix, "/#"), Number, k.depth, i), Some(i.to_string())
PseudoEntry(k, prefix_len, i) ==
    Entry(SubSeq(k.pointer, 1, prefix_len) \o <<"/", "#">>, "Number", k.depth, 0, i,
          SomeText(to_string(i)))

\* json.pop(): the last element leaves the list
Pop(json) == SubSeq(json, 1, Len(json) - 1)

\* PushEntry with the entry put in front of the row instead of behind
PushEntry_Front(flat, e) == <<e>> \o flat

\* flat_json_values.push((k, v))
PushEntry(flat, e) == Append(flat, e)

RECURSIVE ScanRow(_, _, _, _, _)
\* the inner `loop` of row i: [st, flat] when it breaks
ScanRow(st, i, started, flat, is_first_entry) ==
    IF ~CanScan(st) THEN [st |-> st, flat |-> flat]
    ELSE IF st.jw \/ st.j + 1 > Len(st.json)
    THEN [st |-> [st EXCEPT !.panic = TRUE], flat |-> flat]      \* json[j] out of bounds
    ELSE
      LET k == st.json[st.j + 1]
          prefix == RowPrefix(started, i)
          match_prefix == StartsWith(k.pointer, prefix)
          prefix_len == Len(prefix)
      IN IF k.pointer # <<>> /\ SliceFails(k.pointer, prefix_len)
         THEN [st |-> [st EXCEPT !.panic = TRUE], flat |-> flat]
         ELSE
           LET keys == IF k.pointer # <<>>
                       THEN RecordColumn(st.unique_keys,
                                         Column(KeyOf(k.pointer, prefix_len), k.depth))
                       ELSE st.unique_keys
           IN IF match_prefix
              THEN LET popped == st.json[Len(st.json)]
                       flat1 == IF is_first_entry
                                THEN Append(flat, PseudoEntry(k, prefix_len, i))
                                ELSE flat
                   IN ScanRow([st EXCEPT !.json = Pop(st.json), !.j = st.j - 1,
                                         !.unique_keys = keys],
                              i, started,
                              PushEntry(flat1, [popped EXCEPT !.index = i]),
                              FALSE)
              ELSE [st |-> [st EXCEPT !.unique_keys = keys], flat |-> flat]

RECURSIVE ScanRows(_, _, _, _)
\* for i in (0..root_array_len).rev(), from row i down to row 0
ScanRows(st, i, started, rows) ==
    IF i < 0 \/ st.panic THEN [st |-> st, rows |-> rows]
    ELSE IF st.huge_capacity
    THEN [st |-> [st EXCEPT !.panic = TRUE], rows |-> rows]      \* with_capacity(usize::MAX / 10)
    ELSE
      LET r == ScanRow(st, i, started, <<>>, TRUE)
          st1 == IF i = SampleRow THEN [r.st EXCEPT !.huge_capacity = r.st.jw] ELSE r.st
      IN ScanRows(st1, i - 1, started, Append(rows, [entries |-> r.flat, index |-> i]))

\* Reverse left out: the rows stay in the order of discovery
Reverse_Skipped(s) == s

\* Vec::reverse
Reverse(s) == [n \in 1..Len(s) |-> s[Len(s) + 1 - n]]

\* JSONParser::as_array(previous): [status, rows, columns].
\* overflow_checks: whether the build panics on `len - 1` with len = 0 or wraps.
as_array(previous, overflow_checks) ==
    IF ~RootIsArray(previous)
    THEN [status |-> "Err", rows |-> <<>>, columns |-> <<>>]
    ELSE IF previous.json = <<>> /\ overflow_checks
    THEN [status |-> "Panic", rows |-> <<>>, columns |-> <<>>]
    ELSE
      LET st0 == [json |-> previous.json,
                  j |-> IF previous.json = <<>> THEN 0 ELSE Len(previous.json) - 1,
                  jw |-> previous.json = <<>>,
                  unique_keys |-> <<>>,
                  huge_capacity |-> FALSE,
                  panic |-> FALSE]
          r == ScanRows(st0, previous.root_array_len - 1, previous.started_parsing_at, <<>>)
      IN IF r.st.panic
         THEN [status |-> "Panic", rows |-> <<>>, columns |-> <<>>]
         ELSE [status |-> "Ok", rows |-> Reverse(r.rows), columns |-> r.st.unique_keys]

----------------------------------------------------------------------------
(* JSONParser::filter_non_null_column *)

\* concat_string!(prefix, "/", row.index().to_string(), pointer)
PointerToFind(prefix, row, pointer) == prefix \o <<"/">> \o to_string(row.index) \o pointer

\* row.entries().iter().find(|(p, _)| p.pointer.eq(&pointer_to_find)): 0 when not found
Find(entries, pointer_to_find) ==
    IF \E n \in 1..Len(entries) : entries[n].pointer = pointer_to_find
    THEN CHOOSE n \in 1..Len(entries) :
            /\ entries[n].pointer = pointer_to_find
            /\ \A m \in 1..(n - 1) : entries[m].pointer # pointer_to_find
    ELSE 0

\* ColumnNonNull with a missing path let through
ColumnNonNull_AbsentOk(row, prefix, pointer) ==
    LET n == Find(row.entries, PointerToFind(prefix, row, pointer))
    IN IF n = 0 THEN TRUE ELSE row.entries[n].value.some

\* whether one required column lets the row through
ColumnNonNull(row, prefix, pointer) ==
    LET n == Find(row.entries, PointerToFind(prefix, row, pointer))
    IN IF n = 0 THEN FALSE ELSE row.entries[n].value.some

\* should_add_row after the loop over non_null_columns
ShouldAddRow(row, prefix, non_null_columns) ==
    \A c \in 1..Len(non_null_columns) : ColumnNonNull(row, prefix, non_null_columns[c])

RECURSIVE filter_non_null_column(_, _, _)
\* JSONParser::filter_non_null_column(rows, prefix, non_null_columns)
filter_non_null_column(rows, prefix, non_null_columns) ==
    IF rows = <<>> THEN <<>>
    ELSE (IF ShouldAddRow(Head(rows), prefix, non_null_columns) THEN <<Head(rows)>> ELSE <<>>)
         \o filter_non_null_column(Tail(rows), prefix, non_null_columns)

----------------------------------------------------------------------------
(* Inputs: documents given to JSONParser::new, and Parse Results handed to *)
(* the associated functions by a caller                                    *)

Leaves == {Num(<<"1">>), NullDoc}

\* the containers with at most two members whose first member is drawn from V
Wrap(V) ==
    {Obj(<<>>), Arr(<<>>)}
    \cup {Obj(<<KV(<<"a">>, v)>>) : v \in V}
    \cup {Arr(<<v>>) : v \in V}
    \cup {Obj(<<KV(<<"a">>, v), KV(<<"b">>, w)>>) : v \in V, w \in Leaves}
    \cup {Arr(<<v, w>>) : v \in V, w \in Leaves}

RECURSIVE DocsAt(_)
\* the values nested at most n containers deep
DocsAt(n) == IF n = 0 THEN Leaves ELSE Leaves \cup Wrap(DocsAt(n - 1))

\* [{"a":1,"b":null},{"a":2,"b":3}]
DocScenario ==
    Arr(<<Obj(<<KV(<<"a">>, Num(<<"1">>)), KV(<<"b">>, NullDoc)>>),
          Obj(<<KV(<<"a">>, Num(<<"2">>)), KV(<<"b">>, Num(<<"3">>))>>)>>)

\* {"x":{"y":1}}
DocTruncation == Obj(<<KV(<<"x">>, Obj(<<KV(<<"y">>, Num(<<"1">>))>>))>>)

Documents == Wrap(DocsAt(MaxNest - 1)) \cup {DocScenario, DocTruncation}

\* max_depth options: small ones and one that `as u8` truncates
DepthChoices == (1..MaxDepth) \cup {U8Mod}

\* the shapes of one array element in a supplied Parse Result (parsing_max_depth 2)
Kinds == {"scalar", "empty", "null_b", "full", "nested"}

\* the flat entries of element p = "<start>/<i>" of the given shape
ElementBlock(kind, p) ==
    CASE kind = "scalar" -> <<Entry(p, "Number", 1, 0, 0, SomeText(<<"7">>))>>
      [] kind = "empty" -> <<>>
      [] kind = "null_b" ->
            <<Entry(p \o <<"/", "a">>, "Number", 2, 0, 0, SomeText(<<"1">>)),
              Entry(p \o <<"/", "b">>, "Null", 2, 0, 0, None)>>
      [] kind = "full" ->
            <<Entry(p \o <<"/", "a">>, "Number", 2, 0, 0, SomeText(<<"2">>)),
              Entry(p \o <<"/", "b">>, "Number", 2, 0, 0, SomeText(<<"3">>))>>
      [] kind = "nested" ->
            <<Entry(p, "Object", 1, 0, 0, None),
              Entry(p \o <<"/", "a">>, "Object", 2, 0, 0,
                    SomeRaw(Obj(<<KV(<<"y">>, Num(<<"1">>))>>))),
              Entry(p \o <<"/", "c">>, "Array", 2, 0, 0, SomeRaw(Arr(<<Num(<<"1">>)>>)))>>

RECURSIVE ElementBlocks(_, _, _, _)
\* the blocks of elements i..n-1, element i of shape pattern[(i % Len) + 1]
ElementBlocks(pattern, base, i, n) ==
    IF i >= n THEN <<>>
    ELSE ElementBlock(pattern[(i % Len(pattern)) + 1], Concat3(base, <<"/">>, to_string(i)))
         \o ElementBlocks(pattern, base, i + 1, n)

Patterns == [1..PatLen -> Kinds]

\* root array lengths covered: the short ones and those crossing from one to two digits
RowCounts == (0..PatLen) \cup ((MaxRows - 1)..MaxRows)

\* started_parsing_at with the path the entries really begin with;
\* in the last one started_parsing_at is not a prefix of the entries
Starts ==
    {[started |-> NoPath, base |-> <<>>],
     [started |-> SomePath(<<"/", "d">>), base |-> <<"/", "d">>],
     [started |-> SomePath(<<"/", "q">>), base |-> <<>>]}

SuppliedResult(pattern, n, start) ==
    [json |-> Renumber(ElementBlocks(pattern, start.base, 0, n)),
     max_json_depth |-> 3,
     parsing_max_depth |-> 2,
     root_value_type |-> "Array",
     started_parsing_at |-> start.started,
     root_array_len |-> n]

SuppliedResults ==
    {SuppliedResult(p, n, s) : p \in Patterns, n \in RowCounts, s \in Starts}

FilterPrefixes == {<<>>, <<"/", "d">>}
FilterColumns == {<<>>, <<<<"/", "b">>>>, <<<<"/", "a">>, <<"/", "b">>>>, <<<<"/", "#">>>>}

----------------------------------------------------------------------------
(* ObjectTable (object_table.rs) *)

\* most patches pushed to one frame's ArrayResponse
MaxPatches == 2

\* ValueType of json_flat_parser as object_table.rs uses it: Array(len), Object(..), scalars
VType(t, n) == [t |-> t, n |-> n]

\* PointerKey { pointer, value_type, depth, position, column_id }
PointerKey(p, vt, d, pos) ==
    [pointer |-> p, value_type |-> vt, depth |-> d, position |-> pos, column_id |-> 0]

\* Option<String> of a node: None, Some(text), Some(text the serializer produced)
TNone == [some |-> FALSE, text |-> <<>>, json |-> <<>>]
TSome(t) == [some |-> TRUE, text |-> t, json |-> <<>>]
TSomeJson(j) == [some |-> TRUE, text |-> <<>>, json |-> j]

\* FlatJsonValue { pointer, value }
FlatJsonValue(k, v) == [pointer |-> k, value |-> v]

\* serialize_to_json_with_option(&mut entries, depth).to_json(): the text is
\* kept symbolic, identified by the entries and the depth it is built from
Serialize(entries, depth) == <<[entries |-> entries, depth |-> depth]>>

IsArrayNode(entry) == entry.pointer.value_type.t = "Array"
IsObjectNode(entry) == entry.pointer.value_type.t = "Object"
IsLeafNode(entry) == ~IsArrayNode(entry) /\ ~IsObjectNode(entry)

\* the 0-based indices, from place n on, of the nodes that are neither Array nor Object
RECURSIVE FilteredNodes(_, _)
FilteredNodes(nodes, n) ==
    IF n > Len(nodes) THEN <<>>
    ELSE (IF IsLeafNode(nodes[n]) THEN <<n - 1>> ELSE <<>>) \o FilteredNodes(nodes, n + 1)

\* ObjectTable::new(nodes, name): filtered_nodes and the snapshot of the Array nodes
ObjectTableNew(nodes) ==
    [nodes |-> nodes,
     filtered_nodes |-> FilteredNodes(nodes, 1),
     arrays |-> SelectSeq(nodes, IsArrayNode)]

\* updated_pointer.pointer.starts_with(&array.pointer.pointer)
IsParentArray(array, updated_pointer) ==
    StartsWith(updated_pointer.pointer, array.pointer.pointer)

\* for array in self.arrays.iter() { if ... { maybe_parent_array = Some(array); break; } }
\* the 1-based place of the first match, 0 for None
MaybeParentArray(arrays, updated_pointer) ==
    IF \E n \in 1..Len(arrays) : IsParentArray(arrays[n], updated_pointer)
    THEN CHOOSE n \in 1..Len(arrays) :
            /\ IsParentArray(arrays[n], updated_pointer)
            /\ \A m \in 1..(n - 1) : ~IsParentArray(arrays[m], updated_pointer)
    ELSE 0

\* the nodes pushed to array_entries: node.pointer.pointer.starts_with(&parent_array.pointer.pointer)
ArrayEntries(nodes, parent_array) ==
    SelectSeq(nodes, LAMBDA node : StartsWith(node.pointer.pointer, parent_array.pointer.pointer))

\* the trailing marker entry: PointerKey { "", Array(array_entries.len()), 0, 0, 0 }, None
ParentMarker(array_entries) ==
    FlatJsonValue(PointerKey(<<>>, VType("Array", Len(array_entries)), 0, 0), TNone)

\* the patch pushed for an edit inside parent_array
ArrayPatch(nodes, parent_array) ==
    LET array_entries == ArrayEntries(nodes, parent_array)
    IN FlatJsonValue(parent_array.pointer,
                     TSomeJson(Serialize(Append(array_entries, ParentMarker(array_entries)),
                                         parent_array.pointer.depth + 1)))

\* Vec::insert(index, element), index 0-based
Insert(seq, index, e) == SubSeq(seq, 1, index) \o <<e>> \o SubSeq(seq, index + 1, Len(seq))

\* ObjectTable::update_value(array_response, updated_pointer, value, row_index):
\* [nodes, edited_value, changed, ret, panic]
update_value(table, edited_value, updated_pointer, text, row_index) ==
    LET value == IF text = <<>> THEN TNone ELSE TSome(text)
        found == row_index < Len(table.nodes)
        value_changed == IF found THEN table.nodes[row_index + 1].value # value ELSE value.some
        panic == ~found /\ value.some /\ table.nodes = <<>>       \* insert at len() - 1
        nodes == IF panic \/ ~value_changed THEN table.nodes
                 ELSE IF found THEN [table.nodes EXCEPT ![row_index + 1].value = value]
                 ELSE Insert(table.nodes, Len(table.nodes) - 1,
                             FlatJsonValue(updated_pointer, value))
        parent == MaybeParentArray(table.arrays, updated_pointer)
    IN IF panic \/ ~value_changed
       THEN [nodes |-> nodes, edited_value |-> edited_value, changed |-> FALSE,
             ret |-> TRUE, panic |-> panic]
       ELSE [nodes |-> nodes,
             edited_value |->
                 Append(edited_value,
                        IF parent # 0 THEN ArrayPatch(nodes, table.arrays[parent])
                        ELSE FlatJsonValue(updated_pointer, value)),
             changed |-> TRUE, ret |-> FALSE, panic |-> FALSE]

\* node lists an ObjectTable is built from
Leaf(p, d, pos, t) == FlatJsonValue(PointerKey(p, VType("String", 0), d, pos), TSome(t))

\* {"a":["1","2"],"ab":"3","c":null}
NodesSibling ==
    <<FlatJsonValue(PointerKey(<<"/", "a">>, VType("Array", 2), 1, 0), TNone),
      Leaf(<<"/", "a", "/", "0">>, 2, 1, <<"1">>),
      Leaf(<<"/", "a", "/", "1">>, 2, 2, <<"2">>),
      Leaf(<<"/", "a", "b">>, 1, 3, <<"3">>),
      FlatJsonValue(PointerKey(<<"/", "c">>, VType("Null", 0), 1, 4), TNone)>>

\* {"a":[{"b":["1"]}],"z":"2"}
NodesNested ==
    <<FlatJsonValue(PointerKey(<<"/", "a">>, VType("Array", 1), 1, 0), TNone),
      FlatJsonValue(PointerKey(<<"/", "a", "/", "0">>, VType("Object", 0), 2, 1), TNone),
      FlatJsonValue(PointerKey(<<"/", "a", "/", "0", "/", "b">>, VType("Array", 1), 3, 2), TNone),
      Leaf(<<"/", "a", "/", "0", "/", "b", "/", "0">>, 4, 3, <<"1">>),
      Leaf(<<"/", "z">>, 1, 4, <<"2">>)>>

\* {"x":"1","y":"2"}
NodesFlat == <<Leaf(<<"/", "x">>, 1, 0, <<"1">>), Leaf(<<"/", "y">>, 1, 1, <<"2">>)>>

NodeLists == {NodesSibling, NodesNested, NodesFlat}

\* what the user types into a cell (empty clears it)
EditTexts == {<<>>, <<"x">>, <<"1">>}

NoLast == [called |-> FALSE, pointer |-> PointerKey(<<>>, VType("Null", 0), 0, 0),
           value |-> TNone, changed |-> FALSE, before_len |-> 0, panic |-> FALSE]

TableOf(nodes) ==
    [table |-> ObjectTableNew(nodes), edited_value |-> <<>>, last |-> NoLast]

NoTable == TableOf(<<>>)

----------------------------------------------------------------------------
(* The state machine *)

NoCall == [status |-> "none", opts |-> ParseOptions(TRUE, 1), before |-> EmptyPR,
           after |-> EmptyPR, first |-> FALSE]
NoArray == [status |-> "none", given |-> EmptyPR, rows |-> <<>>, columns |-> <<>>]
NoFilter == [done |-> FALSE, prefix |-> <<>>, required |-> <<>>, out |-> <<>>]

\* JSONParser::new(input), or a Parse Result the caller already holds
Init ==
    /\ cd = NoCall
    /\ aa = NoArray
    /\ flt = NoFilter
    /\ tbl = NoTable
    /\ \/ /\ input \in Documents
          /\ parsed = [done |-> FALSE, opts |-> ParseOptions(TRUE, 1)]
          /\ res = [live |-> FALSE, pr |-> EmptyPR]
       \/ /\ input = NoDoc
          /\ parsed = [done |-> FALSE, opts |-> ParseOptions(TRUE, 2)]
          /\ \E pr \in SuppliedResults : res = [live |-> TRUE, pr |-> pr]

\* parser.parse(options)
DoParse(opts) ==
    /\ input # NoDoc
    /\ ~parsed.done
    /\ parsed' = [done |-> TRUE, opts |-> opts]
    /\ res' = [live |-> TRUE, pr |-> Parse(input, opts)]
    /\ UNCHANGED <<input, cd, aa, flt, tbl>>

\* JSONParser::change_depth(res, options.max_depth(md)); a panic ends the run
ChangeDepth(md) ==
    /\ res.live
    /\ LET opts == [parsed.opts EXCEPT !.max_depth = md]
           r == change_depth(res.pr, opts)
       IN /\ cd' = [status |-> r.status, opts |-> opts, before |-> res.pr,
                    after |-> r.pr, first |-> parsed.done /\ cd.status = "none"]
          /\ res' = [live |-> r.status = "Ok", pr |-> r.pr]
    /\ UNCHANGED <<input, parsed, aa, flt, tbl>>

\* JSONParser::as_array(res): consumes the Parse Result
AsArray(overflow_checks) ==
    /\ res.live
    /\ LET r == as_array(res.pr, overflow_checks)
       IN aa' = [status |-> r.status, given |-> res.pr, rows |-> r.rows, columns |-> r.columns]
    /\ res' = [live |-> FALSE, pr |-> EmptyPR]
    /\ UNCHANGED <<input, parsed, cd, flt, tbl>>

\* JSONParser::filter_non_null_column(&rows, prefix, &non_null_columns)
FilterNonNull(prefix, non_null_columns) ==
    /\ aa.status = "Ok"
    /\ flt' = [done |-> TRUE, prefix |-> prefix, required |-> non_null_columns,
               out |-> filter_non_null_column(aa.rows, prefix, non_null_columns)]
    /\ UNCHANGED <<input, parsed, res, cd, aa, tbl>>

Next ==
    \/ \E pa \in BOOLEAN, md \in DepthChoices : DoParse(ParseOptions(pa, md))
    \/ \E md \in DepthChoices : ChangeDepth(md)
    \/ \E oc \in BOOLEAN : AsArray(oc)
    \/ \E p \in FilterPrefixes, c \in FilterColumns : FilterNonNull(p, c)

Spec == Init /\ [][Next]_vars

----------------------------------------------------------------------------
(* The state machine of the ObjectTable view *)

\* ObjectTable::new(nodes, name); no parser call is in progress
InitTable ==
    /\ input = NoDoc
    /\ parsed = [done |-> FALSE, opts |-> ParseOptions(TRUE, 1)]
    /\ res = [live |-> FALSE, pr |-> EmptyPR]
    /\ cd = NoCall
    /\ aa = NoArray
    /\ flt = NoFilter
    /\ \E nodes \in NodeLists : tbl = TableOf(nodes)

\* an edit, paste or delete of the cell at table row table_row_index:
\* update_value(array_response, nodes[row_index].pointer.clone(), text, row_index)
UpdateValue(table_row_index, text) ==
    /\ table_row_index < Len(tbl.table.filtered_nodes)
    /\ Len(tbl.edited_value) < MaxPatches
    /\ LET row_index == tbl.table.filtered_nodes[table_row_index + 1]
           updated_pointer == tbl.table.nodes[row_index + 1].pointer
           r == update_value(tbl.table, tbl.edited_value, updated_pointer, text, row_index)
       IN tbl' = [table |-> [tbl.table EXCEPT !.nodes = r.nodes],
                  edited_value |-> r.edited_value,
                  last |-> [called |-> TRUE, pointer |-> updated_pointer,
                            value |-> IF text = <<>> THEN TNone ELSE TSome(text),
                            changed |-> r.changed,
                            before_len |-> Len(tbl.edited_value), panic |-> r.panic]]
    /\ UNCHANGED <<input, parsed, res, cd, aa, flt>>

\* View::ui: the next frame starts with ArrayResponse::default()
NewFrame ==
    /\ tbl.edited_value # <<>>
    /\ tbl' = [tbl EXCEPT !.edited_value = <<>>, !.last = NoLast]
    /\ UNCHANGED <<input, parsed, res, cd, aa, flt>>

NextTable ==
    \/ \E r \in 0..(Len(tbl.table.filtered_nodes) - 1), t \in EditTexts : UpdateValue(r, t)
    \/ NewFrame

SpecTable == InitTable /\ [][NextTable]_vars

----------------------------------------------------------------------------
(* Vocabulary of the properties *)

\* entry e lies in array element i: its path is "<start>/<i>" or continues it with "/"
ElementOf(pr, e, i) ==
    LET p == RowPrefix(pr.started_parsing_at, i)
    IN e.pointer = p \/ StartsWith(e.pointer, p \o <<"/">>)

ElementIndex(pr, e) == CHOOSE i \in 0..(pr.root_array_len - 1) : ElementOf(pr, e, i)

\* the contiguity invariant of a Parse Result with an array root
Contiguous(pr) ==
    /\ \A n \in 1..Len(pr.json) :
          \E i \in 0..(pr.root_array_len - 1) : ElementOf(pr, pr.json[n], i)
    /\ \A n, m \in 1..Len(pr.json) :
          n < m => ElementIndex(pr, pr.json[n]) <= ElementIndex(pr, pr.json[m])

\* the same flat entry, whatever `index` as_array stamped on it
SameEntry(e, o) == [e EXCEPT !.index = 0] = [o EXCEPT !.index = 0]

\* a synthesized entry: its path ends in "/#"
IsPseudo(e) ==
    Len(e.pointer) >= 2 /\ SubSeq(e.pointer, Len(e.pointer) - 1, Len(e.pointer)) = <<"/", "#">>

\* the places <<r, m>> of the returned rows that hold original entry o
PlacesOf(rows, o) ==
    UNION {{<<r, m>> : m \in {x \in 1..Len(rows[r].entries) : SameEntry(rows[r].entries[x], o)}}
           : r \in 1..Len(rows)}

\* an opaque container stub: Object with Some(raw text)
Opaque(e) == e.value_type = "Object" /\ e.value.some
NotOpaque(e) == ~Opaque(e)

RECURSIVE IsSubsequence(_, _)
\* a occurs in b, in order
IsSubsequence(a, b) ==
    IF a = <<>> THEN TRUE
    ELSE IF b = <<>> THEN FALSE
    ELSE IF Head(a) = Head(b) THEN IsSubsequence(Tail(a), Tail(b))
    ELSE IsSubsequence(a, Tail(b))

StripPositions(json) == [n \in 1..Len(json) |-> [json[n] EXCEPT !.position = 0]]

\* the path suffix of entry e after the prefix of row i
SuffixAfter(pr, e, i) ==
    SubSeq(e.pointer, Len(RowPrefix(pr.started_parsing_at, i)) + 1, Len(e.pointer))

\* started_parsing_at is a prefix of no entry path
MalformedStart(pr) ==
    /\ pr.started_parsing_at.some
    /\ pr.json # <<>>
    /\ \A n \in 1..Len(pr.json) : ~StartsWith(pr.json[n].pointer, pr.started_parsing_at.path)

----------------------------------------------------------------------------
(* Properties *)

\* C1: row partition completeness.  When as_array succeeds on a contiguous
\* array-root Parse Result (with at least one entry; the empty list is the
\* case of C14), every original entry sits at exactly one place of the
\* returned rows, every row holds exactly one synthesized '#' entry, and the
\* rows hold nothing else.
C1_RowPartitionComplete ==
    (aa.status = "Ok" /\ Contiguous(aa.given) /\ aa.given.json # <<>>) =>
        /\ \A n \in 1..Len(aa.given.json) :
              Cardinality(PlacesOf(aa.rows, aa.given.json[n])) = 1
        /\ \A r \in 1..Len(aa.rows) :
              /\ Cardinality({m \in 1..Len(aa.rows[r].entries) :
                                IsPseudo(aa.rows[r].entries[m])}) = 1
              /\ \A m \in 1..Len(aa.rows[r].entries) :
                    \/ IsPseudo(aa.rows[r].entries[m])
                    \/ \E n \in 1..Len(aa.given.json) :
                          SameEntry(aa.rows[r].entries[m], aa.given.json[n])

\* C2: a depth increase is strictly additive.  After change_depth to a greater
\* max_depth, every entry of the previous list that is not an opaque stub
\* (Object with Some(raw text)) is still in the result, in the same relative
\* order, and every other entry of the result lies under an opaque stub.
C2_DepthIncreaseAdditive ==
    (cd.status = "Ok" /\ cd.before.parsing_max_depth < cd.opts.max_depth) =>
        /\ IsSubsequence(SelectSeq(cd.before.json, NotOpaque), cd.after.json)
        /\ \A n \in 1..Len(cd.after.json) :
              \/ \E m \in 1..Len(cd.before.json) : cd.after.json[n] = cd.before.json[m]
              \/ \E m \in 1..Len(cd.before.json) :
                    /\ Opaque(cd.before.json[m])
                    /\ StartsWith(cd.after.json[n].pointer, cd.before.json[m].pointer)

\* C3: a depth reduction fails explicitly.  change_depth to a smaller
\* max_depth returns an error value; it neither panics nor returns Ok.
C3_DepthReductionIsError ==
    (cd.status # "none" /\ cd.opts.max_depth < cd.before.parsing_max_depth) =>
        cd.status = "Err"

\* C4: depth monotonic equivalence.  change_depth(parse(d1), d2) with d1 < d2
\* returns the entries (position ignored) and the parsing_max_depth that
\* parse(d2) returns on the same document with the same other options.
C4_DepthMonotonicEquivalence ==
    (cd.first /\ cd.before.parsing_max_depth < cd.opts.max_depth) =>
        /\ cd.status = "Ok"
        /\ StripPositions(cd.after.json) = StripPositions(Parse(input, cd.opts).json)
        /\ cd.after.parsing_max_depth = Parse(input, cd.opts).parsing_max_depth

\* C5: one pseudo-column per row.  Every returned row i holds exactly one
\* entry with path "<start>/<i>/#", type Number and value the decimal string
\* of i, also when no original entry was collected for the row.
C5_PseudoColumnPerRow ==
    (aa.status = "Ok" /\ Contiguous(aa.given)) =>
        \A r \in 1..Len(aa.rows) :
            Cardinality({m \in 1..Len(aa.rows[r].entries) :
                LET e == aa.rows[r].entries[m]
                IN /\ e.pointer = RowPrefix(aa.given.started_parsing_at, r - 1) \o <<"/", "#">>
                   /\ e.value_type = "Number"
                   /\ e.value = SomeText(to_string(r - 1))}) = 1

\* C6: filter semantics.  filter_non_null_column returns, in input order and
\* unmodified, exactly the rows that for every required suffix s hold an entry
\* with path "<prefix>/<index><s>" whose value is not None.
C6_FilterSemantics ==
    flt.done =>
        LET Has(row, s) ==
                \E m \in 1..Len(row.entries) :
                    /\ row.entries[m].pointer =
                          flt.prefix \o <<"/">> \o to_string(row.index) \o s
                    /\ row.entries[m].value.some
            Keeps(row) == \A c \in 1..Len(flt.required) : Has(row, flt.required[c])
        IN flt.out = SelectSeq(aa.rows, Keeps)

\* C6 happens: one filter call with a required column that keeps a row, drops
\* a row that lacks a required path, and drops a row that holds every required
\* path but one of them with a null value.
C6_Witness ==
    /\ flt.done
    /\ flt.required # <<>>
    /\ flt.out # <<>>
    /\ LET Path(row, c) == flt.prefix \o <<"/">> \o to_string(row.index) \o flt.required[c]
           Present(row, c) == \E m \in 1..Len(row.entries) : row.entries[m].pointer = Path(row, c)
           Null(row, c) == \E m \in 1..Len(row.entries) :
                              /\ row.entries[m].pointer = Path(row, c)
                              /\ ~row.entries[m].value.some
       IN /\ \E r \in 1..Len(aa.rows) :
                /\ \E c \in 1..Len(flt.required) : ~Present(aa.rows[r], c)
                /\ \A x \in 1..Len(flt.out) : flt.out[x] # aa.rows[r]
          /\ \E r \in 1..Len(aa.rows) :
                /\ \A c \in 1..Len(flt.required) : Present(aa.rows[r], c)
                /\ \E c \in 1..Len(flt.required) : Null(aa.rows[r], c)
                /\ \A x \in 1..Len(flt.out) : flt.out[x] # aa.rows[r]

\* C7: column identity.  The returned column list holds no two columns with
\* the same (name, depth), and for every original entry placed in a row, its
\* path suffix after the row's "<start>/<index>" with its depth is exactly one
\* column of the list.
C7_ColumnIdentity ==
    aa.status = "Ok" =>
        /\ \A c1, c2 \in 1..Len(aa.columns) :
              c1 < c2 => ~(/\ aa.columns[c1].name = aa.columns[c2].name
                           /\ aa.columns[c1].depth = aa.columns[c2].depth)
        /\ \A r \in 1..Len(aa.rows) : \A m \in 1..Len(aa.rows[r].entries) :
              LET e == aa.rows[r].entries[m]
              IN ~IsPseudo(e) =>
                    Cardinality({c \in 1..Len(aa.columns) :
                        aa.columns[c] =
                            Column(SuffixAfter(aa.given, e, aa.rows[r].index), e.depth)}) = 1

\* C7 happens: two rows of a successful as_array hold original entries with
\* the same suffix and depth, and the schema has more than one column.
C7_Witness ==
    /\ aa.status = "Ok"
    /\ Len(aa.columns) >= 2
    /\ \E r1, r2 \in 1..Len(aa.rows) :
          /\ r1 < r2
          /\ \E m1 \in 1..Len(aa.rows[r1].entries), m2 \in 1..Len(aa.rows[r2].entries) :
                LET e1 == aa.rows[r1].entries[m1]
                    e2 == aa.rows[r2].entries[m2]
                IN /\ ~IsPseudo(e1) /\ ~IsPseudo(e2)
                   /\ e1.depth = e2.depth
                   /\ SuffixAfter(aa.given, e1, aa.rows[r1].index)
                        = SuffixAfter(aa.given, e2, aa.rows[r2].index)

\* C8: column names are true suffixes.  Every column as_array records is the
\* path suffix, after "<start>/<k>", of an entry of array element k, with that
\* entry's depth; no truncated or shifted name is recorded.
C8_ColumnNamesAreSuffixes ==
    (aa.status = "Ok" /\ Contiguous(aa.given)) =>
        \A c \in 1..Len(aa.columns) :
            \E n \in 1..Len(aa.given.json) :
                LET e == aa.given.json[n]
                IN aa.columns[c] =
                      Column(SuffixAfter(aa.given, e, ElementIndex(aa.given, e)), e.depth)

\* C9: a malformed start prefix is tolerated.  as_array on an array-root Parse
\* Result whose started_parsing_at is a prefix of no entry path returns Ok
\* with no original entry in any row.
C9_MalformedStartTolerated ==
    (aa.status # "none" /\ aa.given.root_value_type = "Array" /\ MalformedStart(aa.given)) =>
        /\ aa.status = "Ok"
        /\ \A r \in 1..Len(aa.rows) : aa.rows[r].entries = <<>>

\* C10: as_array on a Parse Result whose root is not an array returns an
\* error and produces no rows and no columns, whatever the entries are.
C10_NonArrayRootIsError ==
    (aa.status # "none" /\ aa.given.root_value_type # "Array") =>
        /\ aa.status = "Err"
        /\ aa.rows = <<>>
        /\ aa.columns = <<>>

\* C10 happens: as_array was called on an object-root Parse Result that holds entries.
C10_Witness ==
    /\ aa.status = "Err"
    /\ aa.given.root_value_type = "Object"
    /\ aa.given.json # <<>>

\* the original (not synthesized) entries of a row, in the row's order
Originals(row) == SelectSeq(row.entries, LAMBDA e : ~IsPseudo(e))

\* where entry e stands in the flat list (parse order)
PlaceIn(json, e) == CHOOSE n \in 1..Len(json) : SameEntry(json[n], e)

\* C11: row order.  A successful as_array returns exactly root_array_len rows
\* and the row at position k has index k.
C11_RowOrder ==
    aa.status = "Ok" =>
        /\ Len(aa.rows) = aa.given.root_array_len
        /\ \A k \in 1..Len(aa.rows) : aa.rows[k].index = k - 1

\* C11 happens: a successful as_array returned several rows, a later one with entries.
C11_Witness ==
    /\ aa.status = "Ok"
    /\ Len(aa.rows) >= 3
    /\ aa.rows[Len(aa.rows)].entries # <<>>

\* C13: row field ordering.  Within each returned row the original entries
\* stand in the order they were popped from the tail of the flat list: each
\* one is the entry that, in parse order, directly follows the next one of the
\* row.
C13_RowFieldsReversed ==
    aa.status = "Ok" =>
        \A r \in 1..Len(aa.rows) :
            LET o == Originals(aa.rows[r])
            IN \A m \in 1..(Len(o) - 1) :
                  PlaceIn(aa.given.json, o[m]) = PlaceIn(aa.given.json, o[m + 1]) + 1

\* C13 happens: a row of a successful as_array holds several original entries
\* and a later row holds some too.
C13_Witness ==
    /\ aa.status = "Ok"
    /\ \E r1, r2 \in 1..Len(aa.rows) :
          /\ r1 < r2
          /\ Len(Originals(aa.rows[r1])) >= 2
          /\ Len(Originals(aa.rows[r2])) >= 2

\* C14: as_array never crashes on a well-formed array-root Parse Result: on
\* every contiguous one, the empty list and arrays of 11 or more scalars
\* included, it runs to completion and returns Ok.
C14_AsArrayNeverCrashes ==
    (aa.status # "none" /\ aa.given.root_value_type = "Array" /\ Contiguous(aa.given)) =>
        aa.status = "Ok"

\* pointer p lies inside the array at pointer a in the JSON-pointer sense
InsideArray(a, p) == p = a \/ StartsWith(p, a \o <<"/">>)

\* C12: edit patch routing.  When update_value changes a node's value exactly
\* one patch is appended; it targets an Array node's pointer, with the text
\* serialized from the current nodes under that array, exactly when the edited
\* pointer lies inside that array in the JSON-pointer sense, and is
\* (edited pointer, new value) otherwise.
C12_EditPatchRouting ==
    (tbl.last.called /\ tbl.last.changed) =>
        /\ Len(tbl.edited_value) = tbl.last.before_len + 1
        /\ LET patch == tbl.edited_value[Len(tbl.edited_value)]
               arrays == tbl.table.arrays
               holders == {n \in 1..Len(arrays) :
                              InsideArray(arrays[n].pointer.pointer, tbl.last.pointer.pointer)}
               Under(n) == SelectSeq(tbl.table.nodes,
                                     LAMBDA node : InsideArray(arrays[n].pointer.pointer,
                                                               node.pointer.pointer))
           IN IF holders # {}
              THEN \E n \in holders :
                      /\ patch.pointer = arrays[n].pointer
                      /\ patch.value =
                            TSomeJson(Serialize(Append(Under(n), ParentMarker(Under(n))),
                                                arrays[n].pointer.depth + 1))
              ELSE patch = FlatJsonValue(tbl.last.pointer, tbl.last.value)

====
